---- MODULE Spec2Model ----
(***************************************************************************)
(* Model of the upload reconciliation engine of src/app/api/main.py:       *)
(* the CSV parser, the content fingerprint, and the POST /upload handler   *)
(* running as concurrent PostgreSQL transactions (READ COMMITTED, the      *)
(* engine's default) against the tables ea_frame, upload_batches and       *)
(* ea_uploads.                                                             *)
(*                                                                         *)
(* Text is modelled as a sequence of one-character strings.  The byte      *)
(* order mark is the one-element token BOM.  The alphabet of the modelled  *)
(* files has no quote character, so the csv module's quoting rules never   *)
(* apply.  The informational timestamps last_updated_at / uploaded_at and  *)
(* the file_name column are not modelled; created_at of a batch is.        *)
(***************************************************************************)
EXTENDS Integers, Sequences, FiniteSets, TLC

\* ------------------------------------------------------------------------
\* Characters and strings
\* ------------------------------------------------------------------------
BOM == "BOM"
LF == "\n"
CR == "\r"
Whitespace == {" ", "\t", LF, CR}
Digits == {"0", "1", "2", "3", "4", "5", "6", "7", "8", "9"}

DigitVal(c) ==
    CASE c = "0" -> 0 [] c = "1" -> 1 [] c = "2" -> 2 [] c = "3" -> 3
      [] c = "4" -> 4 [] c = "5" -> 5 [] c = "6" -> 6 [] c = "7" -> 7
      [] c = "8" -> 8 [] c = "9" -> 9

RECURSIVE lstrip(_)
lstrip(s) ==
    IF s # <<>> /\ Head(s) \in Whitespace THEN lstrip(Tail(s)) ELSE s

RECURSIVE rstrip(_)
rstrip(s) ==
    IF s # <<>> /\ s[Len(s)] \in Whitespace
    THEN rstrip(SubSeq(s, 1, Len(s) - 1))
    ELSE s

strip(s) == lstrip(rstrip(s))

\* str.split(sep) for a one-character separator: always at least one piece
RECURSIVE split(_, _)
split(s, sep) ==
    IF \A p \in 1..Len(s) : s[p] # sep
    THEN <<s>>
    ELSE LET p == CHOOSE q \in 1..Len(s) :
                      s[q] = sep /\ \A r \in 1..(q - 1) : s[r] # sep
         IN  <<SubSeq(s, 1, p - 1)>> \o split(SubSeq(s, p + 1, Len(s)), sep)

\* sep.join(parts)
RECURSIVE join(_, _)
join(parts, sep) ==
    IF parts = <<>> THEN <<>>
    ELSE IF Len(parts) = 1 THEN parts[1]
    ELSE parts[1] \o <<sep>> \o join(Tail(parts), sep)

\* bytes.decode("utf-8-sig"): one leading byte order mark is dropped
decode_utf8_sig(b) ==
    IF b # <<>> /\ Head(b) = BOM THEN Tail(b) ELSE b

\* txt.replace("\r\n", "\n")
RECURSIVE replace_crlf(_)
replace_crlf(s) ==
    IF s = <<>> THEN <<>>
    ELSE IF Len(s) >= 2 /\ s[1] = CR /\ s[2] = LF
    THEN <<LF>> \o replace_crlf(SubSeq(s, 3, Len(s)))
    ELSE <<Head(s)>> \o replace_crlf(Tail(s))

\* txt.replace("\r", "\n")
replace_cr(s) == [p \in 1..Len(s) |-> IF s[p] = CR THEN LF ELSE s[p]]

\* The normalisation without "ln.rstrip()"
normalize_keeping_trailing_blanks(file_bytes) ==
    LET txt   == replace_cr(replace_crlf(decode_utf8_sig(file_bytes)))
        parts == split(txt, LF)
    IN  strip(join(parts, LF)) \o <<LF>>

normalize_csv_bytes(file_bytes) ==
    LET txt   == replace_cr(replace_crlf(decode_utf8_sig(file_bytes)))
        parts == split(txt, LF)
        lines == [p \in 1..Len(parts) |-> rstrip(parts[p])]
    IN  strip(join(lines, LF)) \o <<LF>>

\* hashlib.sha256(b).hexdigest(), taken as collision-free: the digest is
\* the tagged preimage
sha256_hex(b) == <<"sha256">> \o b

\* int(s): optional sign, then decimal digits; raised marks ValueError
RECURSIVE DecimalValue(_)
DecimalValue(ds) ==
    IF ds = <<>> THEN 0
    ELSE 10 * DecimalValue(SubSeq(ds, 1, Len(ds) - 1)) + DigitVal(ds[Len(ds)])

int(s) ==
    LET t      == strip(s)
        signed == t # <<>> /\ Head(t) \in {"+", "-"}
        ds     == IF signed THEN Tail(t) ELSE t
    IN  IF ds = <<>> \/ \E p \in 1..Len(ds) : ds[p] \notin Digits
        THEN [raised |-> TRUE, value |-> 0]
        ELSE [raised |-> FALSE,
              value  |-> IF signed /\ Head(t) = "-" THEN 0 - DecimalValue(ds)
                         ELSE DecimalValue(ds)]

\* ------------------------------------------------------------------------
\* parse_csv_file
\* ------------------------------------------------------------------------
NAT_EA_SN == <<"N", "A", "T", "_", "E", "A", "_", "S", "N">>
HOUSEHOLD_COUNT ==
    <<"H", "O", "U", "S", "E", "H", "O", "L", "D", "_", "C", "O", "U", "N", "T">>
required == {NAT_EA_SN, HOUSEHOLD_COUNT}

\* Iterating io.StringIO(text): the pieces between "\n"; no empty last line
StringIOLines(txt) ==
    LET parts == split(txt, LF)
    IN  IF parts[Len(parts)] = <<>>
        THEN SubSeq(parts, 1, Len(parts) - 1)
        ELSE parts

\* One record of csv.reader from one line (its "\n" already cut off).  A
\* "\r" ends the record; any other character after it is csv.Error.
csv_record(line) ==
    LET crs     == {p \in 1..Len(line) : line[p] = CR}
        first   == IF crs = {} THEN Len(line) + 1
                   ELSE CHOOSE p \in crs : \A q \in crs : p <= q
        content == SubSeq(line, 1, first - 1)
    IN  [error  |-> \E p \in first..Len(line) : line[p] # CR,
         fields |-> IF content = <<>> THEN <<>> ELSE split(content, ",")]

\* (r.get(key) or "") for r = dict(zip(fieldnames, row)) with restval None
dict_get(fieldnames, row, key) ==
    LET at == {p \in 1..Len(fieldnames) : fieldnames[p] = key}
    IN  IF at = {} THEN <<>>
        ELSE LET last == CHOOSE p \in at : \A q \in at : q <= p
             IN  IF last <= Len(row) THEN row[last] ELSE <<>>

\* The returned triple (rows None is <<>>); raised marks an uncaught csv.Error
ParseResult(rows, err, dup, raised) ==
    [rows |-> rows, err |-> err, dup |-> dup, raised |-> raised]

\* An error message: its kind and the row number it cites (0: none)
ParseError(msg, row) == [msg |-> msg, row |-> row]

\* err is None
NoError == ParseError("", 0)

\* The loop without the test "hh < 0"
RECURSIVE parse_rows_no_sign_check(_, _, _, _, _, _, _)
parse_rows_no_sign_check(lines, fieldnames, j, i, rows, seen_in_file, dup_in_file) ==
    IF j > Len(lines)
    THEN IF rows = <<>>
         THEN ParseResult(<<>>, ParseError("no_valid_rows", 0), dup_in_file, FALSE)
         ELSE ParseResult(rows, NoError, dup_in_file, FALSE)
    ELSE
    LET rec == csv_record(lines[j]) IN
    IF rec.error
    THEN ParseResult(<<>>, ParseError("csv.Error", 0), dup_in_file, TRUE)
    ELSE IF rec.fields = <<>>
    THEN parse_rows_no_sign_check(lines, fieldnames, j + 1, i, rows,
                                  seen_in_file, dup_in_file)
    ELSE
    LET nat    == strip(dict_get(fieldnames, rec.fields, NAT_EA_SN))
        hh_raw == strip(dict_get(fieldnames, rec.fields, HOUSEHOLD_COUNT))
        hh     == int(hh_raw).value
    IN  IF nat = <<>>
        THEN ParseResult(<<>>, ParseError("nat_empty", i), dup_in_file, FALSE)
        ELSE IF nat \in seen_in_file
        THEN parse_rows_no_sign_check(lines, fieldnames, j + 1, i + 1, rows,
                                      seen_in_file, dup_in_file + 1)
        ELSE IF int(hh_raw).raised
        THEN ParseResult(<<>>, ParseError("not_whole_number", i), dup_in_file, FALSE)
        ELSE parse_rows_no_sign_check(lines, fieldnames, j + 1, i + 1,
                Append(rows, <<nat, hh>>), seen_in_file \cup {nat}, dup_in_file)

\* The loop keeping the last occurrence of a NAT_EA_SN instead of the first
RECURSIVE parse_rows_last_wins(_, _, _, _, _, _, _)
parse_rows_last_wins(lines, fieldnames, j, i, rows, seen_in_file, dup_in_file) ==
    IF j > Len(lines)
    THEN IF rows = <<>>
         THEN ParseResult(<<>>, ParseError("no_valid_rows", 0), dup_in_file, FALSE)
         ELSE ParseResult(rows, NoError, dup_in_file, FALSE)
    ELSE
    LET rec == csv_record(lines[j]) IN
    IF rec.error
    THEN ParseResult(<<>>, ParseError("csv.Error", 0), dup_in_file, TRUE)
    ELSE IF rec.fields = <<>>
    THEN parse_rows_last_wins(lines, fieldnames, j + 1, i, rows, seen_in_file,
                              dup_in_file)
    ELSE
    LET nat    == strip(dict_get(fieldnames, rec.fields, NAT_EA_SN))
        hh_raw == strip(dict_get(fieldnames, rec.fields, HOUSEHOLD_COUNT))
        hh     == int(hh_raw).value
    IN  IF nat = <<>>
        THEN ParseResult(<<>>, ParseError("nat_empty", i), dup_in_file, FALSE)
        ELSE IF int(hh_raw).raised
        THEN ParseResult(<<>>, ParseError("not_whole_number", i), dup_in_file, FALSE)
        ELSE IF hh < 0
        THEN ParseResult(<<>>, ParseError("negative", i), dup_in_file, FALSE)
        ELSE IF nat \in seen_in_file
        THEN parse_rows_last_wins(lines, fieldnames, j + 1, i + 1,
                [p \in 1..Len(rows) |->
                    IF rows[p][1] = nat THEN <<nat, hh>> ELSE rows[p]],
                seen_in_file, dup_in_file + 1)
        ELSE parse_rows_last_wins(lines, fieldnames, j + 1, i + 1,
                Append(rows, <<nat, hh>>), seen_in_file \cup {nat}, dup_in_file)

\* The loop "for i, r in enumerate(reader, start=2)" from line j of the
\* file on; blank records are passed over by DictReader without counting.
RECURSIVE parse_rows(_, _, _, _, _, _, _)
parse_rows(lines, fieldnames, j, i, rows, seen_in_file, dup_in_file) ==
    IF j > Len(lines)
    THEN IF rows = <<>>
         THEN ParseResult(<<>>, ParseError("no_valid_rows", 0), dup_in_file, FALSE)
         ELSE ParseResult(rows, NoError, dup_in_file, FALSE)
    ELSE
    LET rec == csv_record(lines[j]) IN
    IF rec.error
    THEN ParseResult(<<>>, ParseError("csv.Error", 0), dup_in_file, TRUE)
    ELSE IF rec.fields = <<>>
    THEN parse_rows(lines, fieldnames, j + 1, i, rows, seen_in_file, dup_in_file)
    ELSE
    LET nat    == strip(dict_get(fieldnames, rec.fields, NAT_EA_SN))
        hh_raw == strip(dict_get(fieldnames, rec.fields, HOUSEHOLD_COUNT))
        hh     == int(hh_raw).value
    IN  IF nat = <<>>
        THEN ParseResult(<<>>, ParseError("nat_empty", i), dup_in_file, FALSE)
        ELSE IF nat \in seen_in_file
        THEN parse_rows(lines, fieldnames, j + 1, i + 1, rows, seen_in_file,
                        dup_in_file + 1)
        ELSE IF int(hh_raw).raised
        THEN ParseResult(<<>>, ParseError("not_whole_number", i), dup_in_file, FALSE)
        ELSE IF hh < 0
        THEN ParseResult(<<>>, ParseError("negative", i), dup_in_file, FALSE)
        ELSE parse_rows(lines, fieldnames, j + 1, i + 1, Append(rows, <<nat, hh>>),
                        seen_in_file \cup {nat}, dup_in_file)

parse_csv_file(file_bytes) ==
    LET lines == StringIOLines(decode_utf8_sig(file_bytes)) IN
    IF lines = <<>>
    THEN ParseResult(<<>>, ParseError("empty", 0), 0, FALSE)
    ELSE
    LET head == csv_record(lines[1]) IN
    IF head.error
    THEN ParseResult(<<>>, ParseError("csv.Error", 0), 0, TRUE)
    ELSE IF head.fields = <<>>
    THEN ParseResult(<<>>, ParseError("empty", 0), 0, FALSE)
    ELSE
    LET fieldnames == head.fields
        cols       == {strip(fieldnames[p]) : p \in 1..Len(fieldnames)}
    IN  IF required \ cols # {}
        THEN ParseResult(<<>>, ParseError("missing_columns", 0), 0, FALSE)
        ELSE parse_rows(lines, fieldnames, 2, 2, <<>>, {}, 0)

\* ------------------------------------------------------------------------
\* Dates
\* ------------------------------------------------------------------------
\* A date is <<year, month, day>>; a NULL date column is NoDate
NoDate == <<0, 0, 0>>

\* A NULL text column
NULL == <<"NULL">>

IsLeap(y) == (y % 4 = 0 /\ y % 100 # 0) \/ y % 400 = 0

DaysInMonth(y, m) ==
    IF m = 2 THEN (IF IsLeap(y) THEN 29 ELSE 28)
    ELSE IF m \in {4, 6, 9, 11} THEN 30 ELSE 31

\* date.fromisoformat(s) for the extended format YYYY-MM-DD; raised marks
\* ValueError
fromisoformat(s) ==
    LET shaped == /\ Len(s) = 10
                  /\ s[5] = "-" /\ s[8] = "-"
                  /\ \A p \in {1, 2, 3, 4, 6, 7, 9, 10} : s[p] \in Digits
        y == DecimalValue(SubSeq(s, 1, 4))
        m == DecimalValue(SubSeq(s, 6, 7))
        d == DecimalValue(SubSeq(s, 9, 10))
    IN  IF shaped /\ y >= 1 /\ m \in 1..12 /\ d >= 1 /\ d <= DaysInMonth(y, m)
        THEN [raised |-> FALSE, value |-> <<y, m, d>>]
        ELSE [raised |-> TRUE, value |-> NoDate]

\* a > b on dates
DateAfter(a, b) ==
    \/ a[1] > b[1]
    \/ a[1] = b[1] /\ a[2] > b[2]
    \/ a[1] = b[1] /\ a[2] = b[2] /\ a[3] > b[3]

\* ------------------------------------------------------------------------
\* The requests of the model
\* ------------------------------------------------------------------------
\* Number of requests the model receives in one behaviour
MaxRequests == 2

\* The concurrent request handlers
Workers == {"w1", "w2"}

Header == NAT_EA_SN \o <<",">> \o HOUSEHOLD_COUNT

FileAB == Header \o <<LF, "A", ",", "5", LF, "B", ",", "3", LF, "A", ",", "7", LF>>
FileA == Header \o <<LF, "A", ",", "6", LF>>
FileNegative == Header \o <<LF, "A", ",", "-", "1", LF>>
FileLoneCr == Header \o <<CR, "A", ",", "6">>

\* file.file.read() raises
Unreadable == <<"unreadable">>

January2026(d1, d2) == <<"2", "0", "2", "6", "-", "0", "1", "-", d1, d2>>
February30 == <<"2", "0", "2", "6", "-", "0", "2", "-", "3", "0">>

Row(nat, hh) == nat \o <<",">> \o hh \o <<LF>>

FileBA == Header \o <<LF>> \o Row(<<"B">>, <<"4">>) \o Row(<<"A">>, <<"6">>)

\* The form fields and files of the concurrent requests.  overrides is the
\* form field allow_override as a client may send it: upload() declares no
\* such parameter, so the field is dropped and nothing reads it.
Requests ==
    [names    |-> {<<"a">>, <<" ", "a", " ">>, <<"b">>, <<" ">>},
     projects |-> {<<"p">>, <<>>},
     dates    |-> {January2026("0", "5"), January2026("1", "0"),
                   <<" ">> \o January2026("1", "0"), February30},
     files    |-> {FileBA, FileA, FileNegative, FileLoneCr, Unreadable},
     overrides |-> {FALSE}]

FileACrLf == <<BOM>> \o Header \o <<CR, LF, "A", ",", "6", " ", CR, LF, CR, LF>>
FileSpaces ==
    Header \o <<LF>> \o Row(<<" ", "A", " ">>, <<" ", "5">>) \o Row(<<"A">>, <<"7">>)
FileBlankRows ==
    Header \o <<LF, LF>> \o Row(<<"B">>, <<"3">>) \o <<CR, LF>>
        \o Row(<<"A">>, <<"1", "2">>)
FileTriple ==
    Header \o <<LF>> \o Row(<<"A">>, <<"5">>) \o Row(<<"A">>, <<"7">>)
        \o Row(<<"B">>, <<"3">>) \o Row(<<"A">>, <<"9">>)
FileDupNotANumber ==
    Header \o <<LF>> \o Row(<<"B">>, <<"3">>) \o Row(<<"B">>, <<"x">>)
FileDupNegative ==
    Header \o <<LF>> \o Row(<<"A">>, <<"5">>) \o Row(<<"A">>, <<"-", "1">>)
FileExtraField ==
    Header \o <<LF>> \o Row(<<"B">>, <<"+", "3", ",", "x">>)
FileNotANumber ==
    Header \o <<LF>> \o Row(<<"A">>, <<"5">>) \o Row(<<"B">>, <<"x">>)
FileNoId == Header \o <<LF>> \o Row(<<" ">>, <<"5">>)
FileShortRow == Header \o <<LF, "A", LF>>
FileNoCount == NAT_EA_SN \o <<LF, "A", LF>>
FileHeaderOnly == Header \o <<LF>>
FileLeadingBlank == <<LF>> \o FileA
FileEmpty == <<>>

\* The form fields and files of the requests handled one at a time
SeqRequests ==
    [names    |-> {<<"a">>, <<" ">>},
     projects |-> {<<"p">>},
     dates    |-> {January2026("0", "5"), January2026("1", "0"), February30},
     files    |-> {FileAB, FileA, FileACrLf, FileBA, FileSpaces, FileBlankRows,
                   FileTriple, FileDupNotANumber, FileDupNegative,
                   FileExtraField,
                   FileNegative, FileNotANumber, FileNoId, FileShortRow,
                   FileNoCount, FileHeaderOnly, FileLeadingBlank, FileEmpty,
                   FileLoneCr, Unreadable},
     overrides |-> {FALSE, TRUE}]

\* What the pure steps of the handler make of each file and date of the model
AllFiles == (Requests.files \cup SeqRequests.files) \ {Unreadable}
AllDates == Requests.dates \cup SeqRequests.dates
Parsed == [f \in AllFiles |-> parse_csv_file(f)]
FileHash == [f \in AllFiles |-> sha256_hex(normalize_csv_bytes(f))]
ParsedDate == [cd \in AllDates |-> fromisoformat(strip(cd))]

\* A row of ea_frame written before last_updated_date existed
LegacyRow ==
    [HOUSEHOLD_COUNT |-> 9, last_updated_by |-> NULL,
     last_updated_project |-> NULL, last_updated_date |-> NoDate]

\* ------------------------------------------------------------------------
\* State
\* ------------------------------------------------------------------------
VARIABLES
    STORE_ROW_AUDIT,        \* the configuration flag
    ea_frame,               \* committed master table: NAT_EA_SN -> row
    upload_batches,         \* committed batch rows
    ea_uploads,             \* committed audit rows
    upload_batches_id_seq,  \* BIGSERIAL of upload_batches.id: last value drawn
    clock,                  \* NOW(): number of requests received
    pc,                     \* per worker: the handler's position
    local,                  \* per worker: the handler's local variables
    tx_frame,               \* per worker: uncommitted writes to ea_frame
    tx_batches,             \* per worker: uncommitted upload_batches rows
    tx_uploads,             \* per worker: uncommitted ea_uploads rows
    response                \* per worker: what the handler returns

vars ==
    <<STORE_ROW_AUDIT, ea_frame, upload_batches, ea_uploads,
      upload_batches_id_seq, clock, pc, local, tx_frame, tx_batches, tx_uploads,
      response>>

store == <<ea_frame, upload_batches, ea_uploads>>

EmptyTable == [k \in {} |-> LegacyRow]

Put(f, k, v) == [x \in DOMAIN f \cup {k} |-> IF x = k THEN v ELSE f[x]]

Overlay(f, g) ==
    [x \in DOMAIN f \cup DOMAIN g |-> IF x \in DOMAIN g THEN g[x] ELSE f[x]]

\* A master row written without its date
FrameRowNoDate(hh, cn, cp, cd) ==
    [HOUSEHOLD_COUNT |-> hh, last_updated_by |-> cn,
     last_updated_project |-> cp, last_updated_date |-> NoDate]

\* The columns an INSERT or UPDATE of ea_frame sets (lines 322-327, 339-347)
FrameRow(hh, cn, cp, cd) ==
    [HOUSEHOLD_COUNT |-> hh, last_updated_by |-> cn,
     last_updated_project |-> cp, last_updated_date |-> cd]

NoLocal ==
    [client_name |-> <<>>, client_project |-> <<>>, cdate |-> NoDate,
     raw_bytes |-> <<>>, file_hash |-> <<>>, rows |-> <<>>, dup_in_file |-> 0,
     master_inserted |-> 0, master_updated |-> 0, master_skipped |-> 0,
     notes_preview |-> <<>>, batch_id |-> 0, tx_start |-> 0,
     row |-> 1, master |-> <<>>, allow_override |-> FALSE]

NoResponse ==
    [kind |-> "none", ok |-> FALSE, reason |-> NoError,
     batch_id |-> 0, created_at |-> 0,
     total_rows |-> 0, valid_rows |-> 0, dup_in_file |-> 0,
     master_inserted |-> 0, master_updated |-> 0, master_skipped |-> 0,
     notes |-> <<>>]

Rejected(reason) ==
    [NoResponse EXCEPT !.kind = "rejected", !.reason = reason]

\* An exception no handler catches: the request fails (HTTP 500)
Unhandled(what) ==
    [NoResponse EXCEPT !.kind = "exception", !.reason = ParseError(what, 0)]

Init ==
    /\ STORE_ROW_AUDIT \in BOOLEAN
    /\ ea_frame = Put(EmptyTable, <<"A">>, LegacyRow)
    /\ upload_batches = {}
    /\ ea_uploads = {}
    /\ upload_batches_id_seq = 0
    /\ clock = 0
    /\ pc = [w \in Workers |-> "idle"]
    /\ local = [w \in Workers |-> NoLocal]
    /\ tx_frame = [w \in Workers |-> EmptyTable]
    /\ tx_batches = [w \in Workers |-> {}]
    /\ tx_uploads = [w \in Workers |-> {}]
    /\ response = [w \in Workers |-> NoResponse]

\* ------------------------------------------------------------------------
\* The transaction of one worker (PostgreSQL, READ COMMITTED)
\* ------------------------------------------------------------------------
InTransaction == {"insert_batch", "select_master", "apply_row",
                  "update_batch", "commit"}

BatchKey(b) ==
    <<b.client_name, b.client_project, b.collection_date, b.file_hash>>

LocalKey(l) == <<l.client_name, l.client_project, l.cdate, l.file_hash>>

\* What a statement of worker w reads of ea_frame: the committed rows and
\* its own writes
Visible(w) == Overlay(ea_frame, tx_frame[w])

\* Another open transaction has written the ea_frame row of nat
LockedByOther(w, nat) ==
    \E o \in Workers \ {w} : nat \in DOMAIN tx_frame[o]

\* Another open transaction has inserted a batch row with this key
BatchKeyHeldByOther(w, key) ==
    \E o \in Workers \ {w} : \E b \in tx_batches[o] : BatchKey(b) = key

\* A connection in autocommit mode: the statements already executed stay
RollbackAutocommit(w, resp) ==
    /\ ea_frame' = Overlay(ea_frame, tx_frame[w])
    /\ upload_batches' = upload_batches \cup tx_batches[w]
    /\ ea_uploads' = ea_uploads \cup tx_uploads[w]
    /\ tx_frame' = [tx_frame EXCEPT ![w] = EmptyTable]
    /\ tx_batches' = [tx_batches EXCEPT ![w] = {}]
    /\ tx_uploads' = [tx_uploads EXCEPT ![w] = {}]
    /\ response' = [response EXCEPT ![w] = resp]
    /\ local' = [local EXCEPT ![w] = NoLocal]
    /\ pc' = [pc EXCEPT ![w] = "return"]

\* Leaving "with engine.begin()" by an exception: ROLLBACK, and the
\* exception leaves the handler, whose local variables are gone
Rollback(w, resp) ==
    /\ tx_frame' = [tx_frame EXCEPT ![w] = EmptyTable]
    /\ tx_batches' = [tx_batches EXCEPT ![w] = {}]
    /\ tx_uploads' = [tx_uploads EXCEPT ![w] = {}]
    /\ response' = [response EXCEPT ![w] = resp]
    /\ local' = [local EXCEPT ![w] = NoLocal]
    /\ pc' = [pc EXCEPT ![w] = "return"]
    /\ UNCHANGED store

\* ------------------------------------------------------------------------
\* upload
\* ------------------------------------------------------------------------
\* The lookup with the file name bound where the fingerprint belongs
existing_batch_by_name(cn, cp, cd, fh) ==
    {b \in upload_batches : BatchKey(b) = <<cn, cp, cd, <<"file_name">>>>}

\* Lines 273-278: SELECT id, created_at FROM upload_batches WHERE ... LIMIT 1
existing_batch(cn, cp, cd, fh) ==
    {b \in upload_batches : BatchKey(b) = <<cn, cp, cd, fh>>}

\* The handler registering the batch before it has validated the request
ReceiveAfterRegistering(w, inputs) ==
    /\ pc[w] = "idle"
    /\ clock < MaxRequests
    /\ \E cn \in inputs.names, cd \in inputs.dates :
        /\ strip(cn) = <<>> \/ ParsedDate[cd].raised
        /\ upload_batches' = upload_batches \cup
              {[id |-> upload_batches_id_seq + 1,
                client_name |-> strip(cn), client_project |-> <<>>,
                collection_date |-> ParsedDate[cd].value, file_hash |-> <<>>,
                total_rows |-> 0, valid_rows |-> 0, invalid_rows |-> 0,
                duplicate_in_file |-> 0, master_inserted |-> 0,
                master_updated |-> 0, master_skipped |-> 0,
                created_at |-> clock + 1]}
    /\ upload_batches_id_seq' = upload_batches_id_seq + 1
    /\ response' = [response EXCEPT ![w] =
                        Rejected(ParseError("client_fields", 0))]
    /\ clock' = clock + 1
    /\ pc' = [pc EXCEPT ![w] = "return"]
    /\ UNCHANGED <<STORE_ROW_AUDIT, ea_frame, ea_uploads, local, tx_frame,
                   tx_batches, tx_uploads>>

\* Lines 229-260, a request that is turned away: a form field, the date,
\* the file or its rows are not acceptable (csv.Error is caught nowhere)
Receive(w, inputs) ==
    /\ pc[w] = "idle"
    /\ clock < MaxRequests
    /\ \E cn \in inputs.names, cp \in inputs.projects :
        IF strip(cn) = <<>> \/ strip(cp) = <<>>
        THEN response' = [response EXCEPT ![w] =
                            Rejected(ParseError("client_fields", 0))]
        ELSE
       \E cd \in inputs.dates :
        IF ParsedDate[cd].raised
        THEN response' = [response EXCEPT ![w] =
                            Rejected(ParseError("collection_date", 0))]
        ELSE
       \E file \in inputs.files :
        IF file = Unreadable
        THEN response' = [response EXCEPT ![w] =
                            Rejected(ParseError("unreadable", 0))]
        ELSE
        LET parsed == Parsed[file] IN
        /\ parsed.err # NoError
        /\ response' = [response EXCEPT ![w] =
                            IF parsed.raised THEN Unhandled(parsed.err.msg)
                            ELSE Rejected(parsed.err)]
    /\ clock' = clock + 1
    /\ pc' = [pc EXCEPT ![w] = "return"]
    /\ UNCHANGED <<STORE_ROW_AUDIT, store, upload_batches_id_seq, local,
                   tx_frame, tx_batches, tx_uploads>>

\* Lines 229-291, a request that is accepted: the fields, the fingerprint and
\* the rows (all local to the handler), then the transaction is opened and
\* the existing batch is looked up
Lookup(w, inputs) ==
    /\ pc[w] = "idle"
    /\ clock < MaxRequests
    /\ \E cn \in inputs.names, cp \in inputs.projects, cd \in inputs.dates,
          file \in inputs.files \ {Unreadable}, ao \in inputs.overrides :
        LET client_name    == strip(cn)
            client_project == strip(cp)
            cdate          == ParsedDate[cd]
            file_hash      == FileHash[file]
            parsed         == Parsed[file]
            found ==
                existing_batch(client_name, client_project, cdate.value, file_hash)
        IN  /\ client_name # <<>> /\ client_project # <<>>
            /\ ~cdate.raised
            /\ parsed.err = NoError
            /\ local' = [local EXCEPT ![w] =
                   [NoLocal EXCEPT
                       !.client_name = client_name,
                       !.client_project = client_project,
                       !.cdate = cdate.value,
                       !.raw_bytes = file,
                       !.file_hash = file_hash,
                       !.rows = parsed.rows,
                       !.dup_in_file = parsed.dup,
                       !.tx_start = clock + 1,
                       !.allow_override = ao]]
            /\ IF found # {}
               THEN \E b \in found :
                    /\ response' = [response EXCEPT ![w] =
                           [NoResponse EXCEPT !.kind = "already_uploaded",
                                              !.ok = TRUE,
                                              !.batch_id = b.id,
                                              !.created_at = b.created_at]]
                    /\ pc' = [pc EXCEPT ![w] = "return"]
               ELSE /\ pc' = [pc EXCEPT ![w] = "insert_batch"]
                    /\ UNCHANGED response
    /\ clock' = clock + 1
    /\ UNCHANGED <<STORE_ROW_AUDIT, store, upload_batches_id_seq, tx_frame,
                   tx_batches, tx_uploads>>

\* upload_batches without its unique index
ux_batch_dedupe_missing(key) == FALSE

\* Lines 72-75: the unique index of upload_batches refuses a key that a
\* committed row has
ux_batch_dedupe(key) == \E b \in upload_batches : BatchKey(b) = key

\* Lines 294-308: INSERT INTO upload_batches ... RETURNING id.  The unique
\* index ux_batch_dedupe makes the statement wait for an open transaction
\* that inserted the same key, and fail once such a row is committed.
InsertBatch(w) ==
    /\ pc[w] = "insert_batch"
    /\ ~BatchKeyHeldByOther(w, LocalKey(local[w]))
    /\ upload_batches_id_seq' = upload_batches_id_seq + 1
    /\ IF ux_batch_dedupe(LocalKey(local[w]))
       THEN Rollback(w, Unhandled("IntegrityError ux_batch_dedupe"))
       ELSE /\ tx_batches' = [tx_batches EXCEPT ![w] =
                {[id |-> upload_batches_id_seq + 1,
                  client_name |-> local[w].client_name,
                  client_project |-> local[w].client_project,
                  collection_date |-> local[w].cdate,
                  file_hash |-> local[w].file_hash,
                  total_rows |-> Len(local[w].rows) + local[w].dup_in_file,
                  valid_rows |-> Len(local[w].rows),
                  invalid_rows |-> 0,
                  duplicate_in_file |-> local[w].dup_in_file,
                  master_inserted |-> 0,
                  master_updated |-> 0,
                  master_skipped |-> 0,
                  created_at |-> local[w].tx_start]}]
            /\ local' = [local EXCEPT ![w].batch_id = upload_batches_id_seq + 1]
            /\ pc' = [pc EXCEPT ![w] = "select_master"]
            /\ UNCHANGED <<store, tx_frame, tx_uploads, response>>
    /\ UNCHANGED <<STORE_ROW_AUDIT, clock>>

\* Lines 313-316: SELECT ... FROM ea_frame WHERE NAT_EA_SN=:nat
SelectMaster(w) ==
    /\ pc[w] = "select_master"
    /\ LET nat == local[w].rows[local[w].row][1]
       IN  local' = [local EXCEPT ![w].master =
                        IF nat \in DOMAIN Visible(w)
                        THEN <<Visible(w)[nat]>>
                        ELSE <<>>]
    /\ pc' = [pc EXCEPT ![w] = "apply_row"]
    /\ UNCHANGED <<STORE_ROW_AUDIT, store, upload_batches_id_seq, clock,
                   tx_frame, tx_batches, tx_uploads, response>>

\* len(notes_preview) < 15
NotesLimit == 15

\* The date test with >= in place of >
can_update_or_equal(cdate, last_date) ==
    last_date = NoDate \/ ~DateAfter(last_date, cdate)

\* Line 336: (last_date is None) or (cdate > last_date)
can_update(cdate, last_date) ==
    last_date = NoDate \/ DateAfter(cdate, last_date)

\* Lines 321-354: the branch taken for a fetched master row
RowStatus(master, cdate) ==
    IF master = <<>> THEN "master_inserted"
    ELSE IF can_update(cdate, master[1].last_updated_date) THEN "master_updated"
    ELSE "master_skipped"

\* The note of a row: what was done and the master row it was decided on
RowNote(status, master) ==
    [status    |-> status,
     last_by   |-> IF master = <<>> THEN NULL ELSE master[1].last_updated_by,
     last_proj |-> IF master = <<>> THEN NULL ELSE master[1].last_updated_project,
     last_date |-> IF master = <<>> THEN NoDate ELSE master[1].last_updated_date]

\* Lines 41-43: the primary key of ea_frame refuses a NAT_EA_SN that a
\* committed row has
ea_frame_pkey(nat) == nat \in DOMAIN ea_frame

\* Lines 318-370: INSERT or UPDATE of the master row, or neither; the audit
\* row; the note.  An INSERT or UPDATE waits for an open transaction that
\* wrote the same row; an INSERT of a key that is committed by then fails.
ApplyRow(w) ==
    /\ pc[w] = "apply_row"
    /\ LET l      == local[w]
           nat    == l.rows[l.row][1]
           hh     == l.rows[l.row][2]
           status == RowStatus(l.master, l.cdate)
           note   == RowNote(status, l.master)
       IN  /\ status # "master_skipped" => ~LockedByOther(w, nat)
           /\ IF status = "master_inserted" /\ ea_frame_pkey(nat)
              THEN Rollback(w, Unhandled("IntegrityError ea_frame_pkey"))
              ELSE /\ tx_frame' = [tx_frame EXCEPT ![w] =
                        IF status = "master_skipped" THEN @
                        ELSE Put(@, nat, FrameRow(hh, l.client_name,
                                                  l.client_project, l.cdate))]
                   /\ tx_uploads' = [tx_uploads EXCEPT ![w] =
                        IF STORE_ROW_AUDIT
                        THEN @ \cup {[batch_id |-> l.batch_id,
                                      NAT_EA_SN |-> nat,
                                      HOUSEHOLD_COUNT |-> hh,
                                      client_name |-> l.client_name,
                                      client_project |-> l.client_project,
                                      collection_date |-> l.cdate,
                                      status |-> status,
                                      note |-> note]}
                        ELSE @]
                   /\ local' = [local EXCEPT ![w] =
                        [l EXCEPT
                           !.master_inserted =
                               IF status = "master_inserted" THEN @ + 1 ELSE @,
                           !.master_updated =
                               IF status = "master_updated" THEN @ + 1 ELSE @,
                           !.master_skipped =
                               IF status = "master_skipped" THEN @ + 1 ELSE @,
                           !.notes_preview =
                               IF Len(@) < NotesLimit
                               THEN Append(@, [nat |-> nat, note |-> note])
                               ELSE @,
                           !.row = @ + 1]]
                   /\ pc' = [pc EXCEPT ![w] =
                        IF l.row = Len(l.rows) THEN "update_batch"
                        ELSE "select_master"]
                   /\ UNCHANGED <<store, tx_batches, response>>
    /\ UNCHANGED <<STORE_ROW_AUDIT, upload_batches_id_seq, clock>>

\* The handler leaving the row loop without the UPDATE of the counters
UpdateBatchForgotten(w) ==
    /\ pc[w] = "update_batch"
    /\ pc' = [pc EXCEPT ![w] = "commit"]
    /\ UNCHANGED <<STORE_ROW_AUDIT, store, upload_batches_id_seq, clock, local,
                   tx_frame, tx_batches, tx_uploads, response>>

\* Lines 373-379: UPDATE upload_batches SET the counters WHERE id=:bid
UpdateBatch(w) ==
    /\ pc[w] = "update_batch"
    /\ tx_batches' = [tx_batches EXCEPT ![w] =
            {IF b.id = local[w].batch_id
             THEN [b EXCEPT !.master_inserted = local[w].master_inserted,
                            !.master_updated = local[w].master_updated,
                            !.master_skipped = local[w].master_skipped]
             ELSE b : b \in @}]
    /\ pc' = [pc EXCEPT ![w] = "commit"]
    /\ UNCHANGED <<STORE_ROW_AUDIT, store, upload_batches_id_seq, clock, local,
                   tx_frame, tx_uploads, response>>

\* Lines 381-396: the summary of a processed upload
Processed(l) ==
    [NoResponse EXCEPT
        !.kind = "processed", !.ok = TRUE,
        !.batch_id = l.batch_id,
        !.total_rows = Len(l.rows) + l.dup_in_file,
        !.valid_rows = Len(l.rows),
        !.dup_in_file = l.dup_in_file,
        !.master_inserted = l.master_inserted,
        !.master_updated = l.master_updated,
        !.master_skipped = l.master_skipped,
        !.notes = l.notes_preview]

\* Line 271, leaving "with engine.begin()" normally: COMMIT
Commit(w) ==
    /\ pc[w] = "commit"
    /\ ea_frame' = Overlay(ea_frame, tx_frame[w])
    /\ upload_batches' = upload_batches \cup tx_batches[w]
    /\ ea_uploads' = ea_uploads \cup tx_uploads[w]
    /\ tx_frame' = [tx_frame EXCEPT ![w] = EmptyTable]
    /\ tx_batches' = [tx_batches EXCEPT ![w] = {}]
    /\ tx_uploads' = [tx_uploads EXCEPT ![w] = {}]
    /\ response' = [response EXCEPT ![w] = Processed(local[w])]
    /\ pc' = [pc EXCEPT ![w] = "return"]
    /\ UNCHANGED <<STORE_ROW_AUDIT, upload_batches_id_seq, clock, local>>

\* A storage fault (lost connection, deadlock victim, timeout) raised by
\* any statement of the open transaction.  A fault of the lookup itself
\* leaves what a fault before the batch insert leaves.
StorageFault(w) ==
    /\ pc[w] \in InTransaction
    /\ Rollback(w, Unhandled("OperationalError"))
    /\ UNCHANGED <<STORE_ROW_AUDIT, upload_batches_id_seq, clock>>

\* The response leaves the handler; the worker takes the next request
Return(w) ==
    /\ pc[w] = "return"
    /\ pc' = [pc EXCEPT ![w] = "idle"]
    /\ local' = [local EXCEPT ![w] = NoLocal]
    /\ response' = [response EXCEPT ![w] = NoResponse]
    /\ UNCHANGED <<STORE_ROW_AUDIT, store, upload_batches_id_seq, clock,
                   tx_frame, tx_batches, tx_uploads>>

Next ==
    \E w \in Workers :
        \/ Receive(w, Requests)
        \/ Lookup(w, Requests)
        \/ InsertBatch(w)
        \/ SelectMaster(w)
        \/ ApplyRow(w)
        \/ UpdateBatch(w)
        \/ Commit(w)
        \/ StorageFault(w)
        \/ Return(w)

Spec == Init /\ [][Next]_vars

\* One handler, one request at a time
NextSeq ==
    \E w \in {"w1"} :
        \/ Receive(w, SeqRequests)
        \/ Lookup(w, SeqRequests)
        \/ InsertBatch(w)
        \/ SelectMaster(w)
        \/ ApplyRow(w)
        \/ UpdateBatch(w)
        \/ Commit(w)
        \/ StorageFault(w)
        \/ Return(w)

SpecSeq == Init /\ [][NextSeq]_vars

\* ------------------------------------------------------------------------
\* Properties
\* ------------------------------------------------------------------------
\* Worker w resolves the row it fetched in this step, without an error
AppliesRow(w) ==
    pc[w] = "apply_row" /\ pc'[w] \in {"select_master", "update_batch"}

\* Worker w commits its transaction in this step
Commits(w) == pc[w] = "commit" /\ response'[w].kind = "processed"

\* The master record holding exactly what row i of the upload of l submits
SubmittedRecord(l, i) ==
    [HOUSEHOLD_COUNT |-> l.rows[i][2],
     last_updated_by |-> l.client_name,
     last_updated_project |-> l.client_project,
     last_updated_date |-> l.cdate]

\* The rows of the upload of l that were given the status st
RowsWithStatus(l, st) ==
    {i \in 1..Len(l.notes_preview) : l.notes_preview[i].note.status = st}

\* What worker w sees of ea_frame after the step
VisibleAfter(w) == Overlay(ea_frame', tx_frame'[w])

C1_Resolved(w) ==
    AppliesRow(w) /\ local[w].master # <<>> =>
        LET l   == local[w]
            nat == l.rows[l.row][1]
            m   == l.master[1]
        IN  IF m.last_updated_date = NoDate
               \/ DateAfter(l.cdate, m.last_updated_date)
            THEN /\ VisibleAfter(w)[nat] = SubmittedRecord(l, l.row)
                 /\ local'[w].master_updated = l.master_updated + 1
                 /\ local'[w].master_skipped = l.master_skipped
                 /\ local'[w].master_inserted = l.master_inserted
            ELSE /\ tx_frame' = tx_frame
                 /\ ea_frame' = ea_frame
                 /\ local'[w].master_skipped = l.master_skipped + 1
                 /\ local'[w].master_updated = l.master_updated
                 /\ local'[w].master_inserted = l.master_inserted

C1_Committed(w) ==
    Commits(w) =>
        LET l == local[w] IN
        /\ \A i \in RowsWithStatus(l, "master_updated") :
              ea_frame'[l.rows[i][1]] = SubmittedRecord(l, i)
        /\ \A i \in RowsWithStatus(l, "master_skipped") :
              ea_frame'[l.rows[i][1]] = ea_frame[l.rows[i][1]]
        /\ response'[w].master_updated =
              Cardinality(RowsWithStatus(l, "master_updated"))
        /\ response'[w].master_skipped =
              Cardinality(RowsWithStatus(l, "master_skipped"))

\* C1: a row whose entity has a master record (as the resolver fetched it)
\* replaces count, owner name, owner project and date and counts as updated
\* when the record's date is unset or the collection date is strictly later;
\* otherwise it counts as skipped and the record stays as it was; the commit
\* of the upload stores exactly that.
C1_NewerDateWins ==
    [][\A w \in Workers : C1_Resolved(w) /\ C1_Committed(w)]_vars

\* An upload was processed that skipped a row because of the date of a
\* record which an earlier upload had updated
C1_Witness ==
    \E w \in Workers :
        /\ response[w].kind = "processed"
        /\ \E i \in RowsWithStatus(local[w], "master_skipped") :
              /\ local[w].notes_preview[i].note.last_date # NoDate
              /\ ea_frame[local[w].rows[i][1]].last_updated_date # NoDate

\* C2: no step lowers the last_updated_date of a committed master record
\* once it is set.
C2_DateNeverDecreases ==
    [][\A nat \in DOMAIN ea_frame :
          ea_frame[nat].last_updated_date # NoDate =>
              ~DateAfter(ea_frame[nat].last_updated_date,
                         ea_frame'[nat].last_updated_date)]_vars

C3_Resolved(w) ==
    AppliesRow(w) /\ local[w].master = <<>> =>
        LET l   == local[w]
            nat == l.rows[l.row][1]
        IN  /\ nat \notin DOMAIN Visible(w)
            /\ VisibleAfter(w)[nat] = SubmittedRecord(l, l.row)
            /\ local'[w].master_inserted = l.master_inserted + 1
            /\ local'[w].master_updated = l.master_updated
            /\ local'[w].master_skipped = l.master_skipped

C3_Committed(w) ==
    Commits(w) =>
        LET l == local[w] IN
        /\ \A i \in RowsWithStatus(l, "master_inserted") :
              /\ l.rows[i][1] \notin DOMAIN ea_frame
              /\ ea_frame'[l.rows[i][1]] = SubmittedRecord(l, i)
        /\ response'[w].master_inserted =
              Cardinality(RowsWithStatus(l, "master_inserted"))

\* C3: a row whose entity has no master record when it is resolved creates
\* one holding exactly the submitted count, client name, client project and
\* collection date, and counts as inserted, whatever the date.
C3_InsertOnAbsence ==
    [][\A w \in Workers : C3_Resolved(w) /\ C3_Committed(w)]_vars

\* An upload was processed that inserted a master record
C3_Witness ==
    \E w \in Workers :
        /\ response[w].kind = "processed"
        /\ response[w].master_inserted >= 1
        /\ \E i \in RowsWithStatus(local[w], "master_inserted") :
              local[w].rows[i][1] \in DOMAIN ea_frame

\* Worker w takes a step other than a storage fault
StepsWithoutFault(w) ==
    /\ pc'[w] # pc[w]
    /\ ~(response'[w].kind = "exception"
         /\ response'[w].reason.msg = "OperationalError")

\* The open transactions are as they were
TransactionsUnchanged ==
    /\ tx_frame' = tx_frame
    /\ tx_batches' = tx_batches
    /\ tx_uploads' = tx_uploads

C4_Lookup(w) ==
    pc[w] = "idle" /\ local'[w] # NoLocal =>
        \A b \in upload_batches :
            BatchKey(b) = <<local'[w].client_name, local'[w].client_project,
                            local'[w].cdate,
                            sha256_hex(normalize_csv_bytes(local'[w].raw_bytes))>>
            => /\ response'[w].kind = "already_uploaded"
               /\ response'[w].ok
               /\ response'[w].batch_id = b.id
               /\ response'[w].created_at = b.created_at
               /\ pc'[w] = "return"
               /\ store' = store
               /\ upload_batches_id_seq' = upload_batches_id_seq
               /\ TransactionsUnchanged

C4_Returned(w) ==
    response[w].kind = "already_uploaded" /\ pc'[w] # pc[w] =>
        /\ pc'[w] = "idle"
        /\ store' = store
        /\ upload_batches_id_seq' = upload_batches_id_seq
        /\ TransactionsUnchanged

C5_BatchTupleUnique ==
    \A b1, b2 \in upload_batches : BatchKey(b1) = BatchKey(b2) => b1 = b2

\* Two uploads of one batch identity both passed the lookup; one committed
\* its batch and the other's insert was refused
C5_Witness ==
    \E w \in Workers :
        /\ response[w].kind = "exception"
        /\ response[w].reason.msg = "IntegrityError ux_batch_dedupe"
        /\ Cardinality(upload_batches) = 1
        /\ upload_batches_id_seq = 2

C6_Fault(w) ==
    /\ pc[w] \in InTransaction
    /\ response'[w].kind = "exception"
    /\ response'[w].reason.msg = "OperationalError"

\* C6: a storage fault at any statement of the open transaction leaves
\* ea_frame, upload_batches and ea_uploads as they were and discards every
\* write of the upload; and the tables change only when an upload commits,
\* so nothing of a faulted upload was ever visible.
C6_AtomicRollback ==
    [][/\ \A w \in Workers :
            C6_Fault(w) =>
                /\ store' = store
                /\ tx_frame'[w] = EmptyTable
                /\ tx_batches'[w] = {}
                /\ tx_uploads'[w] = {}
                /\ pc'[w] = "return"
       /\ store' # store => \E w \in Workers : Commits(w)]_vars

\* The only upload so far registered its batch and then met a storage
\* fault: no batch row, no audit item, the master table as it began
C6_Witness ==
    \E w \in Workers :
        /\ response[w].kind = "exception"
        /\ response[w].reason.msg = "OperationalError"
        /\ clock = 1
        /\ upload_batches_id_seq = 1
        /\ upload_batches = {}
        /\ ea_uploads = {}
        /\ ea_frame = Put(EmptyTable, <<"A">>, LegacyRow)
        /\ \A o \in Workers : tx_batches[o] = {} /\ tx_frame[o] = EmptyTable

\* C7: an upload that found no master record for an entity which another
\* upload has inserted and committed meanwhile does not fail: it resolves
\* the row through the update branch and does not count it as inserted.
C7_RacingInsertsBothSucceed ==
    [][\A w \in Workers :
          /\ pc[w] = "apply_row"
          /\ local[w].master = <<>>
          /\ local[w].rows[local[w].row][1] \in DOMAIN ea_frame
          /\ StepsWithoutFault(w)
          => /\ response'[w].kind # "exception"
             /\ local'[w].master_inserted = local[w].master_inserted
             /\ local'[w].row = local[w].row + 1]_vars

\* C8: an upload that passed the lookup and whose batch insert meets the
\* committed batch of the same identity is reported as already uploaded,
\* with that batch's id, and applies nothing.
C8_RacingBatchAlreadyUploaded ==
    [][\A w \in Workers :
          /\ pc[w] = "insert_batch"
          /\ \E b \in upload_batches : BatchKey(b) = LocalKey(local[w])
          /\ StepsWithoutFault(w)
          => /\ response'[w].kind = "already_uploaded"
             /\ \E b \in upload_batches :
                   /\ BatchKey(b) = LocalKey(local[w])
                   /\ response'[w].batch_id = b.id
             /\ store' = store]_vars

C9_Refused(w) ==
    /\ pc[w] = "idle"
    /\ response'[w].kind \in {"rejected", "exception"}

\* C9: a request refused for its input (a client field empty after
\* trimming, a collection date that is no calendar date, an unreadable file,
\* a file that does not parse or validate) is refused before the
\* transaction: the step leaves ea_frame, upload_batches, ea_uploads, the
\* batch sequence and every open transaction as they were; no rejection comes
\* from inside a transaction; and no request with such an input is accepted.
C9_RejectionTouchesNothing ==
    [][\A w \in Workers :
          /\ C9_Refused(w) =>
                /\ store' = store
                /\ upload_batches_id_seq' = upload_batches_id_seq
                /\ TransactionsUnchanged
                /\ local'[w] = NoLocal
                /\ pc'[w] = "return"
          /\ response'[w].kind = "rejected" /\ response[w].kind # "rejected"
                => pc[w] = "idle"
          /\ pc[w] = "idle" /\ local'[w] # NoLocal =>
                /\ local'[w].client_name # <<>>
                /\ local'[w].client_project # <<>>
                /\ local'[w].cdate # NoDate
                /\ local'[w].raw_bytes # Unreadable
                /\ Parsed[local'[w].raw_bytes].err = NoError]_vars

\* A file with a negative count was rejected while another upload had its
\* transaction open, and that transaction is still open
C9_Witness ==
    \E w \in Workers, o \in Workers :
        /\ response[w].kind = "rejected"
        /\ response[w].reason.msg = "negative"
        /\ tx_batches[o] # {}
        /\ pc[o] \in InTransaction

\* The data rows of a file: the records after the header that are not blank
DataRecords(file_bytes) ==
    LET lines == StringIOLines(decode_utf8_sig(file_bytes))
        recs  == [p \in 1..Len(lines) |-> csv_record(lines[p]).fields]
    IN  SelectSeq(Tail(recs), LAMBDA r : r # <<>>)

\* The trimmed entity id and the count of a data row under the header
\* NAT_EA_SN,HOUSEHOLD_COUNT
EntityOf(r) == strip(r[1])

CountOf(r) == int(strip(r[2])).value

\* The position in D of the first data row of entity nat
FirstOccurrence(D, nat) ==
    CHOOSE j \in 1..Len(D) :
        /\ EntityOf(D[j]) = nat
        /\ \A k \in 1..(j - 1) : EntityOf(D[k]) # nat

C10_Rows(l) ==
    LET D == DataRecords(l.raw_bytes)
        R == l.rows
    IN  /\ \A i, k \in 1..Len(R) : R[i][1] = R[k][1] => i = k
        /\ {R[i][1] : i \in 1..Len(R)} = {EntityOf(D[j]) : j \in 1..Len(D)}
        /\ \A i \in 1..Len(R) : R[i][2] = CountOf(D[FirstOccurrence(D, R[i][1])])
        /\ \A i, k \in 1..Len(R) :
              i < k => FirstOccurrence(D, R[i][1]) < FirstOccurrence(D, R[k][1])
        /\ l.dup_in_file = Len(D) - Len(R)

C10_Resolver(w) ==
    LET l    == local[w]
        R    == l.rows
        done == 1..(l.row - 1)
    IN  /\ l.row \in 1..(Len(R) + 1)
        /\ Len(l.notes_preview) = l.row - 1
        /\ \A i \in done : l.notes_preview[i].nat = R[i][1]
        /\ DOMAIN tx_frame[w] \subseteq {R[i][1] : i \in done}
        /\ \A nat \in DOMAIN tx_frame[w] :
              \E i \in done : tx_frame[w][nat] = SubmittedRecord(l, i)
        /\ \A u \in tx_uploads[w] :
              \E i \in done : u.NAT_EA_SN = R[i][1] /\ u.HOUSEHOLD_COUNT = R[i][2]
        /\ STORE_ROW_AUDIT /\ pc[w] \in InTransaction =>
              Cardinality(tx_uploads[w]) = l.row - 1
        /\ response[w].kind = "processed" =>
              /\ l.row = Len(R) + 1
              /\ response[w].valid_rows = Len(R)
              /\ response[w].dup_in_file = l.dup_in_file
              /\ response[w].master_inserted + response[w].master_updated
                    + response[w].master_skipped = Len(R)

\* C10: the rows parsed from an accepted file hold each distinct trimmed
\* NAT_EA_SN of its data rows exactly once, with the count of the first data
\* row of that NAT_EA_SN, in the order of the first occurrences; dup_in_file
\* is the number of data rows less the number of rows returned; and the
\* row loop resolves, writes and audits the returned rows only, one by one.
C10_InFileDedup ==
    \A w \in Workers :
        local[w] # NoLocal => C10_Rows(local[w]) /\ C10_Resolver(w)

\* The file with three rows of one entity and one of another was processed:
\* two returned rows, two duplicates, the count of the first row in the master table
C10_Witness ==
    \E w \in Workers :
        /\ response[w].kind = "processed"
        /\ local[w].raw_bytes = FileTriple
        /\ Len(local[w].rows) = 2
        /\ response[w].dup_in_file = 2
        /\ ea_frame[local[w].rows[1][1]].HOUSEHOLD_COUNT = local[w].rows[1][2]

\* The count field of a data row is no whole number, or is negative
BadCount(r) ==
    LET c == int(strip(IF Len(r) >= 2 THEN r[2] ELSE <<>>))
    IN  c.raised \/ c.value < 0

\* The 1-based numbers of the data rows of a file whose count is bad
BadCountRows(file_bytes) ==
    LET D == DataRecords(file_bytes)
    IN  {j \in 1..Len(D) : BadCount(D[j])}

\* The files under the header NAT_EA_SN,HOUSEHOLD_COUNT whose data rows all
\* have an entity id
WellIdentified(file_bytes) ==
    LET lines == StringIOLines(decode_utf8_sig(file_bytes))
        D     == DataRecords(file_bytes)
    IN  /\ lines # <<>>
        /\ csv_record(lines[1]).fields = <<NAT_EA_SN, HOUSEHOLD_COUNT>>
        /\ \A j \in 1..Len(D) : EntityOf(D[j]) # <<>>

BadCountReasons == {"not_whole_number", "negative"}

\* C11: a file with a data row whose count is no integer or is negative is
\* never accepted, and a rejection for a bad count cites the number of the
\* first such data row, the first data row after the header being row 1.
C11_BadCountRejectedWithRowNumber ==
    \A w \in Workers :
        /\ local[w] # NoLocal => BadCountRows(local[w].raw_bytes) = {}
        /\ response[w].kind = "rejected"
           /\ response[w].reason.msg \in BadCountReasons
           => \A f \in SeqRequests.files \ {Unreadable} :
                 WellIdentified(f) /\ Parsed[f].err = response[w].reason
                 => /\ BadCountRows(f) # {}
                    /\ \A j \in BadCountRows(f) : response[w].reason.row <= j
                    /\ response[w].reason.row \in BadCountRows(f)

\* C12: a row of an upload submitted with allow_override set, whose entity
\* has a master record, overwrites every field of that record and counts as
\* updated, whatever the two dates are.
C12_OverrideAlwaysUpdates ==
    [][\A w \in Workers :
          AppliesRow(w) /\ local[w].allow_override /\ local[w].master # <<>>
          => /\ VisibleAfter(w)[local[w].rows[local[w].row][1]]
                   = SubmittedRecord(local[w], local[w].row)
             /\ local'[w].master_updated = local[w].master_updated + 1
             /\ local'[w].master_skipped = local[w].master_skipped]_vars

\* The rows of the file that committed batch b registered (a file that was
\* accepted; the accepted files with one fingerprint have the same rows)
RowsOfBatch(b) ==
    Parsed[CHOOSE f \in AllFiles :
              FileHash[f] = b.file_hash /\ Parsed[f].err = NoError].rows

\* The committed batches whose file has a row for entity nat
BatchesWith(nat) ==
    {b \in upload_batches :
        \E i \in 1..Len(RowsOfBatch(b)) : RowsOfBatch(b)[i][1] = nat}

\* The master record that batch b submits for entity nat
RecordOfBatch(b, nat) ==
    LET R == RowsOfBatch(b)
        i == CHOOSE k \in 1..Len(R) : R[k][1] = nat
    IN  [HOUSEHOLD_COUNT |-> R[i][2],
         last_updated_by |-> b.client_name,
         last_updated_project |-> b.client_project,
         last_updated_date |-> b.collection_date]

\* The batches with a row for nat that have the latest collection date
Freshest(nat) ==
    {b \in BatchesWith(nat) :
        \A o \in BatchesWith(nat) :
            ~DateAfter(o.collection_date, b.collection_date)}

\* No upload is under way
Quiescent == \A w \in Workers : pc[w] \in {"idle", "return"}

\* C13 as stated: after uploads executed one after another, the master
\* record of an entity is the one submitted by the upload with the latest
\* collection date, whichever of the uploads arrived first.
C13_FreshestWinsAnyOrder ==
    Quiescent =>
        \A nat \in DOMAIN ea_frame :
            \A b \in Freshest(nat) : ea_frame[nat] = RecordOfBatch(b, nat)

\* C13 amended: after uploads executed one after another, the master record
\* of an entity carries the latest collection date among the uploads with a
\* row for it, and the count and owner of the first of the uploads with that
\* date to arrive.
C13_FreshestFirstArrivedWins ==
    Quiescent =>
        \A nat \in DOMAIN ea_frame :
            BatchesWith(nat) # {} =>
                \E b \in Freshest(nat) :
                    /\ \A o \in Freshest(nat) : b.id <= o.id
                    /\ ea_frame[nat] = RecordOfBatch(b, nat)

\* Two uploads with a row for A arrived with the later collection date
\* first; the record of A is the one the first upload submitted
C13_Witness ==
    /\ Quiescent
    /\ \E b1, b2 \in BatchesWith(<<"A">>) :
          /\ b1.id < b2.id
          /\ DateAfter(b1.collection_date, b2.collection_date)
          /\ RecordOfBatch(b1, <<"A">>) # RecordOfBatch(b2, <<"A">>)
          /\ ea_frame[<<"A">>] = RecordOfBatch(b1, <<"A">>)

\* The committed batches other than the one of l that have a row for nat
\* under the client name, project and collection date of l
EarlierInContext(l, nat) ==
    {b \in BatchesWith(nat) :
        /\ b.id # l.batch_id
        /\ b.client_name = l.client_name
        /\ b.client_project = l.client_project
        /\ b.collection_date = l.cdate}

\* C14: a row whose entity an earlier committed batch recorded for the same
\* client name, project and collection date gets the outcome
\* skipped_duplicate_context and writes nothing to the master table.
C14_DuplicateContextSkipped ==
    [][\A w \in Workers :
          AppliesRow(w)
          /\ EarlierInContext(local[w], local[w].rows[local[w].row][1]) # {}
          => /\ local'[w].notes_preview[local[w].row].note.status
                   = "skipped_duplicate_context"
             /\ tx_frame' = tx_frame
             /\ local'[w].master_inserted = local[w].master_inserted
             /\ local'[w].master_updated = local[w].master_updated]_vars

\* C15: ea_frame holds one row per entity: no key is empty, no two keys are
\* the same NAT_EA_SN up to surrounding blanks, no two open transactions
\* hold a row of the same key; and no row, committed or written by an open
\* transaction, has a negative HOUSEHOLD_COUNT.
C15_OneRecordNonNegative ==
    /\ \A k1, k2 \in DOMAIN ea_frame :
          /\ strip(k1) # <<>>
          /\ strip(k1) = strip(k2) => k1 = k2
    /\ \A nat \in DOMAIN ea_frame : ea_frame[nat].HOUSEHOLD_COUNT >= 0
    /\ \A w \in Workers :
          /\ \A nat \in DOMAIN tx_frame[w] :
                /\ strip(nat) = nat /\ nat # <<>>
                /\ tx_frame[w][nat].HOUSEHOLD_COUNT >= 0
          /\ \A o \in Workers \ {w} :
                DOMAIN tx_frame[w] \cap DOMAIN tx_frame[o] = {}

\* Two uploads raced to insert B: one record of B is committed, the second
\* insert was refused, and the file with a negative count left nothing
C15_Witness ==
    /\ <<"B">> \in DOMAIN ea_frame
    /\ ea_frame[<<"B">>].HOUSEHOLD_COUNT = 4
    /\ \E w \in Workers :
          /\ response[w].kind = "exception"
          /\ response[w].reason.msg = "IntegrityError ea_frame_pkey"

\* The lines of a text, a line ending at CR LF, at CR or at LF
RECURSIVE TextLinesFrom(_, _)
TextLinesFrom(s, cur) ==
    IF s = <<>> THEN <<cur>>
    ELSE IF Len(s) >= 2 /\ s[1] = CR /\ s[2] = LF
    THEN <<cur>> \o TextLinesFrom(SubSeq(s, 3, Len(s)), <<>>)
    ELSE IF s[1] \in {CR, LF}
    THEN <<cur>> \o TextLinesFrom(Tail(s), <<>>)
    ELSE TextLinesFrom(Tail(s), Append(cur, s[1]))

\* The lines put together again with terminator t after every line but
\* the last
RECURSIVE JoinWith(_, _)
JoinWith(lines, t) ==
    IF Len(lines) = 1 THEN lines[1]
    ELSE lines[1] \o t \o JoinWith(Tail(lines), t)

Terminators == {<<LF>>, <<CR>>, <<CR, LF>>}

\* The presentations of a file: its lines with any one terminator, with or
\* without a blank after every line, a blank line before the first line, a
\* blank line after the last, and a byte order mark at the very start
Presentations(file_bytes) ==
    LET L == TextLinesFrom(decode_utf8_sig(file_bytes), <<>>)
    IN  {bom \o lead \o JoinWith([p \in 1..Len(L) |-> L[p] \o pad], t) \o trail :
            bom \in {<<>>, <<BOM>>}, lead \in {<<>>, <<LF>>},
            pad \in {<<>>, <<" ">>}, t \in Terminators,
            trail \in {<<>>, <<CR, LF>>}}

\* The presentations, and the file with one more byte order mark or one
\* more blank line in front of whatever it starts with
StatedPresentations(file_bytes) ==
    Presentations(file_bytes)
        \cup {<<BOM>> \o file_bytes, <<LF>> \o file_bytes}

\* The text ends in one LF, and holds no other terminator than LF
EndsInOneTerminator(n) ==
    /\ n # <<>>
    /\ n[Len(n)] = LF
    /\ Len(n) >= 2 => n[Len(n) - 1] # LF
    /\ \A p \in 1..Len(n) : n[p] # CR

\* Every one of the inputs V normalises to what file f normalises to, and
\* normalising that again changes nothing
SameNormalForm(f, V) ==
    LET n == normalize_csv_bytes(f)
    IN  /\ EndsInOneTerminator(n)
        /\ \A g \in V :
              /\ normalize_csv_bytes(g) = n
              /\ normalize_csv_bytes(normalize_csv_bytes(g)) = n

Normalized == [f \in AllFiles |-> normalize_csv_bytes(f)]
InsensitiveAsStated == [f \in AllFiles |-> SameNormalForm(f, StatedPresentations(f))]
Insensitive == [f \in AllFiles |-> SameNormalForm(f, Presentations(f))]

\* The fingerprint of the upload of l is that of its normalised bytes, and
\* it is the fingerprint of exactly the files with those normalised bytes
FingerprintOfNormalForm(l) ==
    /\ l.file_hash = sha256_hex(Normalized[l.raw_bytes])
    /\ \A g \in AllFiles :
          FileHash[g] = l.file_hash <=> Normalized[g] = Normalized[l.raw_bytes]

\* C16 as stated: the fingerprint of an upload is the hash of its
\* normalised bytes; every input that differs from the file only in line
\* terminators, trailing blanks, a leading byte order mark or leading and
\* trailing blank lines has the same normalised bytes, ending in one
\* terminator, and normalising twice is normalising once.
C16_NormalizationInsensitive ==
    \A w \in Workers :
        local[w] # NoLocal =>
            /\ FingerprintOfNormalForm(local[w])
            /\ InsensitiveAsStated[local[w].raw_bytes]

\* C16 amended: the same, for inputs that hold no byte order mark other
\* than one at the very start.
C16_NormalizationInsensitiveOneBom ==
    \A w \in Workers :
        local[w] # NoLocal =>
            /\ FingerprintOfNormalForm(local[w])
            /\ Insensitive[local[w].raw_bytes]

\* The file with a byte order mark, CRLF line ends, a trailing blank and a
\* blank last line was taken with the fingerprint of the plain file
C16_Witness ==
    \E w \in Workers :
        /\ pc[w] = "insert_batch"
        /\ local[w].raw_bytes = FileACrLf
        /\ local[w].file_hash = FileHash[FileA]
        /\ FileACrLf \in Presentations(FileACrLf)
        /\ FileA \notin Presentations(FileACrLf)

\* The outcome counters of a batch row
Counters(b) == <<b.master_inserted, b.master_updated, b.master_skipped>>

\* The uncommitted writes of worker w
Writes(w) == <<tx_frame[w], tx_batches[w], tx_uploads[w]>>

C17_Positions(w) ==
    LET l == local[w] IN
    /\ pc[w] \in {"idle", "return", "insert_batch"} =>
          Writes(w) = <<EmptyTable, {}, {}>>
    /\ pc[w] \in {"select_master", "apply_row", "update_batch", "commit"} =>
          /\ Cardinality(tx_batches[w]) = 1
          /\ \A b \in tx_batches[w] : b.id = l.batch_id
    /\ pc[w] \in {"select_master", "apply_row"} => l.row \in 1..Len(l.rows)
    /\ pc[w] \in {"select_master", "apply_row", "update_batch"} =>
          \A b \in tx_batches[w] : Counters(b) = <<0, 0, 0>>
    /\ pc[w] \in {"update_batch", "commit"} => l.row = Len(l.rows) + 1
    /\ pc[w] = "commit" =>
          \A b \in tx_batches[w] :
              Counters(b) = <<l.master_inserted, l.master_updated,
                              l.master_skipped>>

C17_Steps(w) ==
    /\ pc[w] = "idle" => Writes(w)' = Writes(w)
    /\ pc[w] = "idle" /\ pc'[w] # "idle" =>
          /\ store' = store
          /\ upload_batches_id_seq' = upload_batches_id_seq
    /\ tx_frame'[w] # tx_frame[w] \/ tx_uploads'[w] # tx_uploads[w] =>
          \/ pc[w] = "apply_row" /\ tx_batches[w] # {}
                                 /\ tx_batches'[w] = tx_batches[w]
          \/ Writes(w)' = <<EmptyTable, {}, {}>>
    /\ tx_batches'[w] # tx_batches[w] =>
          \/ pc[w] = "insert_batch" /\ pc'[w] = "select_master"
          \/ pc[w] = "update_batch" /\ pc'[w] = "commit"
          \/ Writes(w)' = <<EmptyTable, {}, {}>>
    /\ Commits(w) =>
          /\ pc[w] = "commit"
          /\ upload_batches' = upload_batches \cup tx_batches[w]

\* C17: in the transaction of an upload the lookup step writes nothing and
\* nothing is written before it; the batch row is inserted before any row
\* is resolved, written or audited; the counters of the batch row stay 0
\* while the rows are resolved and are set once, after the last row and
\* before the commit, to the counters of the upload.
C17_StepOrder ==
    [][\A w \in Workers :
          C17_Positions(w) /\ C17_Positions(w)' /\ C17_Steps(w)]_vars

\* An upload is about to commit: both rows resolved, the counters set
C17_Witness ==
    \E w \in Workers :
        /\ pc[w] = "commit"
        /\ local[w].row = 3
        /\ \E b \in tx_batches[w] : Counters(b) = <<1, 1, 0>>
        /\ Cardinality(DOMAIN tx_frame[w]) = 2

\* The rows of the upload of l that were written to the master table
AppliedRows(l) ==
    RowsWithStatus(l, "master_updated") \cup RowsWithStatus(l, "master_inserted")

\* C18: the uploads are serialized on a master record: once an upload that
\* applied a row to it is committed, the record's last_updated_date is not
\* lower than the collection date of that upload, whatever other upload
\* ran at the same time.
C18_SerializedOnRecord ==
    \A w \in Workers :
        response[w].kind = "processed" =>
            \A i \in AppliedRows(local[w]) :
                /\ local[w].rows[i][1] \in DOMAIN ea_frame
                /\ ~DateAfter(local[w].cdate,
                              ea_frame[local[w].rows[i][1]].last_updated_date)

C19_Row(b) ==
    /\ b.master_inserted + b.master_updated + b.master_skipped = b.valid_rows
    /\ b.total_rows = b.valid_rows + b.duplicate_in_file
    /\ b.invalid_rows = 0
    /\ b.valid_rows >= 1
    /\ b.master_inserted >= 0 /\ b.master_updated >= 0 /\ b.master_skipped >= 0
    /\ b.duplicate_in_file >= 0

\* C19: every committed batch row has its three outcome counters summing to
\* valid_rows, total_rows = valid_rows + duplicate_in_file, invalid_rows = 0
\* and valid_rows >= 1; and a processed upload has left exactly one batch
\* row, the one with its batch id, its identity and its counters.
C19_BatchRowAccounts ==
    /\ \A b \in upload_batches : C19_Row(b)
    /\ \A b1, b2 \in upload_batches : b1.id = b2.id => b1 = b2
    /\ \A w \in Workers :
          response[w].kind = "processed" =>
              \E b \in upload_batches :
                  /\ b.id = response[w].batch_id
                  /\ BatchKey(b) = LocalKey(local[w])
                  /\ b.valid_rows = Len(local[w].rows)
                  /\ b.duplicate_in_file = local[w].dup_in_file
                  /\ Counters(b) = <<response[w].master_inserted,
                                     response[w].master_updated,
                                     response[w].master_skipped>>
                  /\ b.total_rows = response[w].total_rows

\* An upload with a duplicate row in its file was processed with every row
\* skipped, and its batch row is in the ledger beside the earlier one
C19_Witness ==
    \E w \in Workers :
        /\ response[w].kind = "processed"
        /\ response[w].dup_in_file >= 1
        /\ response[w].master_skipped = response[w].valid_rows
        /\ Cardinality(upload_batches) = 2
        /\ \E b \in upload_batches :
              b.id = response[w].batch_id /\ b.master_skipped = b.valid_rows

====
